---- MODULE Spec2Model ----
(***************************************************************************)
(* A model of password_checker.py: the common-password loader, the charset *)
(* and entropy estimator, the crack-time model, the formatters, the        *)
(* advisor, the report renderer and main.                                  *)
(*                                                                         *)
(* A character is a one-character string (a character outside ASCII is     *)
(* named by its code point, "U+00E9") and a str is a sequence of them.     *)
(*                                                                         *)
(* Floats.  TLC's integers are 32 bits wide and 2 ** bits leaves that      *)
(* range at once, so the floats of the program are modelled in fixed       *)
(* point, to six decimals:                                                 *)
(*   - an entropy value (bits) is an integer number of millionths of a bit;*)
(*   - a positive quantity on the multiplicative side (2 ** bits, a rate,  *)
(*     a duration in seconds) is held by its base-2 logarithm, again in    *)
(*     millionths: [zero |-> FALSE, lg |-> x] stands for 2^(x / Micro).    *)
(*     Multiplying adds, dividing subtracts, comparing compares; Zero is   *)
(*     the one value that has no logarithm.                                *)
(* math.log2 is its table of values, rounded to the sixth decimal.  The    *)
(* range error of the float format (2 ** bits raises OverflowError from    *)
(* bits = 1024 on) is modelled by that threshold.  The digits that         *)
(* human_readable formats are not modelled: its result is the unit of the  *)
(* branch that formats.                                                    *)
(***************************************************************************)
EXTENDS Integers, Sequences, FiniteSets

VARIABLES
    COMMON_PASSWORDS,      \* the module global of line 34
    MATPLOTLIB_AVAILABLE,  \* the module global of lines 7-11
    pc,                    \* where the run of main stands
    password,              \* pw of main, password of check_password_and_show
    bits,                  \* local of check_password_and_show
    label,                 \* local of check_password_and_show
    scenario,              \* index into SCENARIOS of the loop of line 178
    out,                   \* what has been written to standard output
    exc,                   \* the exception that left main, "none" if none
    call,                  \* function harness: the call made
    ret                    \* function harness: what it returned

vars == <<COMMON_PASSWORDS, MATPLOTLIB_AVAILABLE, pc, password, bits, label,
          scenario, out, exc, call, ret>>

(***************************************************************************)
(* Bounds of the model                                                     *)
(***************************************************************************)
\* typed passwords: up to MaxPrefix free characters, then a run of one
\* character of a length up to MaxPad
MaxPrefix == 2
MaxPad == 12
\* word-list files: up to MaxLines lines
MaxLines == 2
\* entropy values handed to strength_label: 0.0, 0.1, ... MaxDeciBits / 10
MaxDeciBits == 640
\* durations handed to the formatters: within MaxDelta millionths (in the
\* logarithm) of each boundary, and 2^-MaxLg .. 2^MaxLg seconds
MaxDelta == 2
MaxLg == 40
\* entropy values and rates handed to the crack-time model
MaxCrackBits == 8
MaxRate == 12

(***************************************************************************)
(* Numbers                                                                 *)
(***************************************************************************)
Micro == 1000 * 1000

\* round(log2(k) * Micro) for k = 1 .. 100
Log2Table ==
    <<
      0, 1000000, 1584963, 2000000, 2321928, 2584963, 2807355, 3000000, 3169925, 3321928,
      3459432, 3584963, 3700440, 3807355, 3906891, 4000000, 4087463, 4169925, 4247928, 4321928,
      4392317, 4459432, 4523562, 4584963, 4643856, 4700440, 4754888, 4807355, 4857981, 4906891,
      4954196, 5000000, 5044394, 5087463, 5129283, 5169925, 5209453, 5247928, 5285402, 5321928,
      5357552, 5392317, 5426265, 5459432, 5491853, 5523562, 5554589, 5584963, 5614710, 5643856,
      5672425, 5700440, 5727920, 5754888, 5781360, 5807355, 5832890, 5857981, 5882643, 5906891,
      5930737, 5954196, 5977280, 6000000, 6022368, 6044394, 6066089, 6087463, 6108524, 6129283,
      6149747, 6169925, 6189825, 6209453, 6228819, 6247928, 6266787, 6285402, 6303781, 6321928,
      6339850, 6357552, 6375039, 6392317, 6409391, 6426265, 6442943, 6459432, 6475733, 6491853,
      6507795, 6523562, 6539159, 6554589, 6569856, 6584963, 6599913, 6614710, 6629357, 6643856
    >>

\* math.log2 on the integers the program and its thresholds hand to it
log2(k) ==
    CASE k \in 1..100     -> Log2Table[k]
      [] k = 365          -> 8511753
      [] k = 3600         -> 11813781
      [] k = 86400        -> 16398744
      [] k = 1000000000   -> 29897353

Zero == [zero |-> TRUE, lg |-> 0]
Num(k) == [zero |-> FALSE, lg |-> log2(k)]
Times(a, b) ==
    IF a.zero \/ b.zero THEN Zero ELSE [zero |-> FALSE, lg |-> a.lg + b.lg]
Over(a, b) ==
    IF a.zero THEN Zero ELSE [zero |-> FALSE, lg |-> a.lg - b.lg]
\* a < b
Less(a, b) ==
    IF b.zero THEN FALSE ELSE IF a.zero THEN TRUE ELSE a.lg < b.lg

\* the exponent from which 2.0 ** x is out of the range of a float
DBL_MAX_EXP == 1024

(***************************************************************************)
(* Characters and str methods                                              *)
(***************************************************************************)
ascii_lowercase ==
    <<
      "a", "b", "c", "d", "e", "f", "g", "h", "i", "j", "k", "l", "m",
      "n", "o", "p", "q", "r", "s", "t", "u", "v", "w", "x", "y", "z"
    >>
ascii_uppercase ==
    <<
      "A", "B", "C", "D", "E", "F", "G", "H", "I", "J", "K", "L", "M",
      "N", "O", "P", "Q", "R", "S", "T", "U", "V", "W", "X", "Y", "Z"
    >>
digits == <<"0", "1", "2", "3", "4", "5", "6", "7", "8", "9">>
punctuation ==
    <<
      "!", "\"", "#", "$", "%", "&", "'", "(", ")", "*", "+",
      ",", "-", ".", "/", ":", ";", "<", "=", ">", "?", "@",
      "[", "\\", "]", "^", "_", "U+0060", "{", "|", "}", "~"
    >>

Range(s) == {s[k] : k \in 1..Len(s)}

\* ("U+0060" is the grave accent, which a TLA+ string cannot hold)

\* characters outside ASCII: e-acute, E-acute, ARABIC-INDIC DIGIT THREE,
\* NO-BREAK SPACE, and the CJK ideograph U+4E2D, which is in no class
islower(c) == c \in Range(ascii_lowercase) \cup {"U+00E9"}
isupper(c) == c \in Range(ascii_uppercase) \cup {"U+00C9"}
isdigit(c) == c \in Range(digits) \cup {"U+0663"}
isspace(c) == c \in {" ", "\t", "\n", "\r", "U+00A0"}

\* str.lower, one character
LowerChar(c) ==
    IF c \in Range(ascii_uppercase)
    THEN ascii_lowercase[CHOOSE k \in 1..Len(ascii_uppercase) : ascii_uppercase[k] = c]
    ELSE IF c = "U+00C9" THEN "U+00E9" ELSE c

\* str.lower
lower(s) == [k \in 1..Len(s) |-> LowerChar(s[k])]

RECURSIVE lstrip(_)
lstrip(s) == IF s # <<>> /\ isspace(Head(s)) THEN lstrip(Tail(s)) ELSE s

RECURSIVE rstrip(_)
rstrip(s) ==
    IF s # <<>> /\ isspace(s[Len(s)]) THEN rstrip(SubSeq(s, 1, Len(s) - 1)) ELSE s

\* str.strip
strip(s) == rstrip(lstrip(s))

\* str.startswith, for a one-character prefix
startswith(s, c) == s # <<>> /\ s[1] = c

\* the operator in of str: a occurs in s
Contains(s, a) ==
    \E k \in 0..(Len(s) - Len(a)) : SubSeq(s, k + 1, k + Len(a)) = a

(***************************************************************************)
(* Common-password set loader (lines 13-34)                                *)
(***************************************************************************)
FALLBACK_COMMON ==
    {
      <<"1", "2", "3", "4", "5", "6">>,
      <<"p", "a", "s", "s", "w", "o", "r", "d">>,
      <<"1", "2", "3", "4", "5", "6", "7", "8", "9">>,
      <<"1", "2", "3", "4", "5", "6", "7", "8">>,
      <<"1", "2", "3", "4", "5">>,
      <<"q", "w", "e", "r", "t", "y">>,
      <<"a", "b", "c", "1", "2", "3">>,
      <<"p", "a", "s", "s", "w", "o", "r", "d", "1">>,
      <<"1", "1", "1", "1", "1", "1">>,
      <<"1", "2", "3", "4", "5", "6", "7">>,
      <<"i", "l", "o", "v", "e", "y", "o", "u">>,
      <<"a", "d", "m", "i", "n">>
    }

\* The word-list file next to the program: whether it exists, whether
\* open() succeeds, its lines, and the line whose decoding fails (0: none).
RECURSIVE ReadLines(_, _, _)
ReadLines(file, k, words) ==
    IF k > Len(file.lines) THEN [raised |-> FALSE, words |-> words]
    ELSE IF k = file.bad THEN [raised |-> TRUE, words |-> words]
    ELSE LET w == strip(file.lines[k])
         IN  IF w = <<>> \/ startswith(w, "#")
             THEN ReadLines(file, k + 1, words)
             ELSE ReadLines(file, k + 1, words \cup {lower(w)})

\* the slip of returning the words as read, empty or not
load_common_passwords_keeps_empty(file) ==
    IF ~file.exists THEN FALLBACK_COMMON
    ELSE IF ~file.readable THEN FALLBACK_COMMON
    ELSE LET r == ReadLines(file, 1, {})
         IN  IF r.raised THEN FALLBACK_COMMON ELSE r.words

load_common_passwords(file) ==
    IF ~file.exists THEN FALLBACK_COMMON
    ELSE IF ~file.readable THEN FALLBACK_COMMON
    ELSE LET r == ReadLines(file, 1, {})
         IN  IF r.raised THEN FALLBACK_COMMON
             ELSE IF r.words = {} THEN FALLBACK_COMMON ELSE r.words

(***************************************************************************)
(* Scenario table (lines 36-41); 1e11 is 100 * 1e9                         *)
(***************************************************************************)
SCENARIOS ==
    <<
      [desc |-> "Online, very limited (login forms)", rate |-> Num(10)],
      [desc |-> "Online, lightly limited (older sites)", rate |-> Num(100)],
      [desc |-> "Local attack (single GPU)", rate |-> Num(1000000000)],
      [desc |-> "Big attacker (GPU cluster)",
       rate |-> Times(Num(100), Num(1000000000))]
    >>

(***************************************************************************)
(* Charset and entropy estimator (lines 43-61)                             *)
(***************************************************************************)
ispunct(c) == c \in Range(punctuation)

\* any(c.islower() for c in password), and the like
AnyLower(s) == \E k \in 1..Len(s) : islower(s[k])
AnyUpper(s) == \E k \in 1..Len(s) : isupper(s[k])
AnyDigit(s) == \E k \in 1..Len(s) : isdigit(s[k])
AnyPunct(s) == \E k \in 1..Len(s) : ispunct(s[k])
AnySpace(s) == \E k \in 1..Len(s) : isspace(s[k])

\* the slip of returning cs where the code returns cs or 1
charset_size_unfloored(pw) ==
    LET cs1 == IF AnyLower(pw) THEN Len(ascii_lowercase) ELSE 0
        cs2 == IF AnyUpper(pw) THEN cs1 + Len(ascii_uppercase) ELSE cs1
        cs3 == IF AnyDigit(pw) THEN cs2 + Len(digits) ELSE cs2
        cs4 == IF AnyPunct(pw) THEN cs3 + Len(punctuation) ELSE cs3
    IN  IF AnySpace(pw) THEN cs4 + 1 ELSE cs4

charset_size(pw) ==
    LET cs0 == 0
        cs1 == IF AnyLower(pw) THEN cs0 + Len(ascii_lowercase) ELSE cs0
        cs2 == IF AnyUpper(pw) THEN cs1 + Len(ascii_uppercase) ELSE cs1
        cs3 == IF AnyDigit(pw) THEN cs2 + Len(digits) ELSE cs2
        cs4 == IF AnyPunct(pw) THEN cs3 + Len(punctuation) ELSE cs3
        cs5 == IF AnySpace(pw) THEN cs4 + 1 ELSE cs4
    IN  IF cs5 = 0 THEN 1 ELSE cs5

entropy_bits(pw) ==
    LET cs == charset_size(pw)
    IN  IF cs <= 1 THEN 0 ELSE Len(pw) * log2(cs)

(***************************************************************************)
(* Crack-time model (lines 63-65)                                          *)
(***************************************************************************)
\* 2 ** b for a float b >= 0: the value, or the OverflowError of float pow
Pow2(b) ==
    IF b >= DBL_MAX_EXP * Micro
    THEN [raised |-> "OverflowError", val |-> Zero]
    ELSE [raised |-> "none", val |-> [zero |-> FALSE, lg |-> b]]

\* the slip of searching the whole keyspace: combos / attempts_per_second
avg_crack_time_full_keyspace(b, attempts_per_second) ==
    LET combos == Pow2(b)
    IN  IF combos.raised # "none" THEN combos
        ELSE [raised |-> "none", val |-> Over(combos.val, attempts_per_second)]

avg_crack_time_seconds_from_bits(b, attempts_per_second) ==
    LET combos == Pow2(b)
    IN  IF combos.raised # "none" THEN combos
        ELSE [raised |-> "none",
              val |-> Over(Over(combos.val, Num(2)), attempts_per_second)]

(***************************************************************************)
(* Formatters (lines 67-110)                                               *)
(***************************************************************************)
human_readable(seconds) ==
    IF Less(seconds, Num(1)) THEN "ms"
    ELSE LET minute == Num(60)
             hour == Num(3600)
             day == Num(86400)
             year == Times(Num(365), day)
             century == Times(Num(100), year)
         IN  IF Less(seconds, minute) THEN "s"
             ELSE IF Less(seconds, hour) THEN "min"
             ELSE IF Less(seconds, day) THEN "h"
             ELSE IF Less(seconds, year) THEN "days"
             ELSE IF Less(seconds, century) THEN "years"
             ELSE "centuries"

\* the slip of <= for < at the minute
human_interpretation_inclusive(seconds) ==
    IF Less(seconds, Num(1)) THEN "Broken instantly."
    ELSE IF ~Less(Num(60), seconds) THEN "Broken in under a minute."
    ELSE IF Less(seconds, Num(3600)) THEN "Broken in under an hour."
    ELSE IF Less(seconds, Num(86400)) THEN "Broken within a day."
    ELSE IF Less(seconds, Times(Num(365), Num(86400)))
         THEN "Broken in months/years."
    ELSE IF Less(seconds, Times(Times(Num(100), Num(365)), Num(86400)))
         THEN "Very long to break (years)."
    ELSE "Practically impossible to break."

human_interpretation(seconds) ==
    IF Less(seconds, Num(1)) THEN "Broken instantly."
    ELSE IF Less(seconds, Num(60)) THEN "Broken in under a minute."
    ELSE IF Less(seconds, Num(3600)) THEN "Broken in under an hour."
    ELSE IF Less(seconds, Num(86400)) THEN "Broken within a day."
    ELSE IF Less(seconds, Times(Num(365), Num(86400)))
         THEN "Broken in months/years."
    ELSE IF Less(seconds, Times(Times(Num(100), Num(365)), Num(86400)))
         THEN "Very long to break (years)."
    ELSE "Practically impossible to break."

\* the slip of <= for < at the first threshold
strength_label_inclusive(b) ==
    IF b <= 28 * Micro THEN "Weak"
    ELSE IF b < 36 * Micro THEN "Okay"
    ELSE IF b < 60 * Micro THEN "Good"
    ELSE "Very strong"

strength_label(b) ==
    IF b < 28 * Micro THEN "Weak"
    ELSE IF b < 36 * Micro THEN "Okay"
    ELSE IF b < 60 * Micro THEN "Good"
    ELSE "Very strong"

(***************************************************************************)
(* Advisor (lines 112-135)                                                 *)
(***************************************************************************)
SuggestIf(cond, text) == IF cond THEN <<text>> ELSE <<>>

\* the slip of <= for < at 12 characters
suggest_improvements_off_by_one(pw) ==
    LET suggestions ==
            SuggestIf(Len(pw) <= 12, "Make it longer (12+ characters).")
         \o SuggestIf(~AnyLower(pw), "Add lowercase letters.")
         \o SuggestIf(~AnyUpper(pw), "Add uppercase letters.")
         \o SuggestIf(~AnyDigit(pw), "Add numbers.")
         \o SuggestIf(~AnyPunct(pw), "Add symbols (e.g. !?@#).")
         \o SuggestIf(lower(pw) \in COMMON_PASSWORDS \/ Len(pw) <= 4,
                      "Don't use common or very short passwords.")
    IN  IF suggestions = <<>>
        THEN <<"Nice! Consider a passphrase or a password manager.">>
        ELSE suggestions

suggest_improvements(pw) ==
    LET suggestions ==
            SuggestIf(Len(pw) < 12, "Make it longer (12+ characters).")
         \o SuggestIf(~AnyLower(pw), "Add lowercase letters.")
         \o SuggestIf(~AnyUpper(pw), "Add uppercase letters.")
         \o SuggestIf(~AnyDigit(pw), "Add numbers.")
         \o SuggestIf(~AnyPunct(pw), "Add symbols (e.g. !?@#).")
         \o SuggestIf(lower(pw) \in COMMON_PASSWORDS \/ Len(pw) <= 4,
                      "Don't use common or very short passwords.")
    IN  IF suggestions = <<>>
        THEN <<"Nice! Consider a passphrase or a password manager.">>
        ELSE suggestions

\* the slip of leaving out the test of the entry's length
contains_common_part_any_length(pw) ==
    LET low == lower(pw)
    IN  \E common \in COMMON_PASSWORDS : Contains(low, common)

contains_common_part(pw) ==
    LET low == lower(pw)
    IN  \E common \in COMMON_PASSWORDS : Contains(low, common) /\ Len(common) >= 3

(***************************************************************************)
(* Strength bar (lines 137-161), the text branch                           *)
(***************************************************************************)
\* min(max((bits / 80.0) * 100.0, 0.0), 100.0), in millionths
Perc(b) ==
    IF b >= 80 * Micro THEN 100 * Micro
    ELSE IF b <= 0 THEN 0
    ELSE (b * 5) \div 4

\* int(perc // 2)
Blocks(b) == Perc(b) \div (2 * Micro)

AsciiBar(b) == [kind |-> "bar", blocks |-> Blocks(b), dashes |-> 50 - Blocks(b)]

(***************************************************************************)
(* Inputs                                                                  *)
(***************************************************************************)
Rep(c, n) == [k \in 1..n |-> c]

SeqsUpTo(S, n) == UNION {[1..m -> S] : m \in 0..n}

demo == <<"P", "a", "s", "s", "w", "o", "r", "d", "1", "!">>

\* one character of each class, and one of none
Alphabet == {"a", "A", "1", "!", " ", "U+4E2D"}
TypedAlphabet == {"a", "A", "1"}
PadChars == {"a", "1", "!"}
SeedWords ==
    { demo, <<"a", "A", "1", "!">>, <<"A", "d", "m", "i", "n">>,
      <<"x", "1", "2", "3", "4", "5">> }

Padded(bases) == {p \o Rep(c, n) : p \in bases, c \in PadChars, n \in 0..MaxPad}

\* long enough for more than 256 bits, and on both sides of 1024 bits
LongPasswords ==
    {Rep("a", n) : n \in {55, 217, 218}} \cup {Rep("!", n) : n \in {204, 205}}

\* the passwords handed to the functions of a password
Passwords == Padded(SeqsUpTo(Alphabet, MaxPrefix) \cup SeedWords)

\* what the operator types at the prompt
Typed == Padded(SeqsUpTo(TypedAlphabet, MaxPrefix) \cup SeedWords) \cup LongPasswords

\* lines of a word-list file
LineChoices ==
    { <<>>, <<" ">>, <<"#", "a">>, <<" ", "#", "a">>, <<"a", "1">>,
      <<" ", "A", "A", "1", " ">>, <<"a", " ", "#">>, <<"A", "1">> }

WordListFiles ==
    { [exists |-> e, readable |-> r, lines |-> ls, bad |-> b] :
        e \in BOOLEAN, r \in BOOLEAN, ls \in SeqsUpTo(LineChoices, MaxLines),
        b \in 0..MaxLines }

NoFile == [exists |-> FALSE, readable |-> FALSE, lines |-> <<>>, bad |-> 0]
ShortList ==
    [exists |-> TRUE, readable |-> TRUE, bad |-> 0,
     lines |-> << <<"#", "a">>, <<"a", "1">>, <<" ", "A", "A", "1", " ">> >>]

\* the word lists the program is run with
CommonSets == {load_common_passwords(f) : f \in {NoFile, ShortList}}

(***************************************************************************)
(* The program: main and check_password_and_show (lines 163-222)           *)
(***************************************************************************)
Line(kind, text) == [kind |-> kind, text |-> text]

Emit(lines) == out' = out \o lines

Init ==
    /\ COMMON_PASSWORDS \in CommonSets
    /\ MATPLOTLIB_AVAILABLE \in BOOLEAN
    /\ pc = "main"
    /\ password = <<>>
    /\ bits = 0
    /\ label = "none"
    /\ scenario = 0
    /\ out = <<>>
    /\ exc = "none"
    /\ call = [fn |-> "none"]
    /\ ret = [done |-> FALSE]

\* line 207, a terminal: the banner (lines 208-210)
MainTerminal ==
    /\ pc = "main"
    /\ Emit(<<Line("banner", "Simple Password Check"), Line("banner", ""),
              Line("banner", "Enter your password. The input is hidden and not stored.")>>)
    /\ pc' = "prompt"
    /\ UNCHANGED <<COMMON_PASSWORDS, MATPLOTLIB_AVAILABLE, password, bits, label,
                   scenario, exc, call, ret>>

\* line 207, no terminal: the demo run (lines 220-222)
MainDemo ==
    /\ pc = "main"
    /\ Emit(<<Line("demo", "Demo run (no terminal input). Sample password: Password1!")>>)
    /\ password' = demo
    /\ pc' = "check"
    /\ UNCHANGED <<COMMON_PASSWORDS, MATPLOTLIB_AVAILABLE, bits, label, scenario,
                   exc, call, ret>>

\* line 212: getpass returns what was typed (its prompt goes to the terminal)
GetPass ==
    /\ pc = "prompt"
    /\ \E pw \in Typed : password' = pw
    /\ pc' = "entered"
    /\ UNCHANGED <<COMMON_PASSWORDS, MATPLOTLIB_AVAILABLE, bits, label, scenario,
                   out, exc, call, ret>>

\* lines 213-214: getpass raises, input() prompts on standard output
GetPassFails ==
    /\ pc = "prompt"
    /\ \E pw \in Typed : password' = pw
    /\ Emit(<<Line("prompt", "Password: ")>>)
    /\ pc' = "entered"
    /\ UNCHANGED <<COMMON_PASSWORDS, MATPLOTLIB_AVAILABLE, bits, label, scenario,
                   exc, call, ret>>

\* lines 215-217
NoPassword ==
    /\ pc = "entered"
    /\ password = <<>>
    /\ Emit(<<Line("bye", "No password entered. Bye.")>>)
    /\ pc' = "done"
    /\ UNCHANGED <<COMMON_PASSWORDS, MATPLOTLIB_AVAILABLE, password, bits, label,
                   scenario, exc, call, ret>>

\* the slip of leaving out the return of line 217
CallCheckUnguarded ==
    /\ pc = "entered"
    /\ pc' = "check"
    /\ UNCHANGED <<COMMON_PASSWORDS, MATPLOTLIB_AVAILABLE, password, bits, label,
                   scenario, out, exc, call, ret>>

\* line 218
CallCheck ==
    /\ pc = "entered"
    /\ password # <<>>
    /\ pc' = "check"
    /\ UNCHANGED <<COMMON_PASSWORDS, MATPLOTLIB_AVAILABLE, password, bits, label,
                   scenario, out, exc, call, ret>>

\* lines 164-170
Header ==
    /\ pc = "check"
    /\ bits' = entropy_bits(password)
    /\ label' = strength_label(bits')
    /\ Emit(<<Line("status", label'), Line("length", Len(password)),
              Line("score", bits')>>)
    /\ pc' = "warn"
    /\ UNCHANGED <<COMMON_PASSWORDS, MATPLOTLIB_AVAILABLE, password, scenario,
                   exc, call, ret>>

\* lines 172-177
Warn ==
    /\ pc = "warn"
    /\ Emit((IF lower(password) \in COMMON_PASSWORDS
             THEN <<Line("common", "WARNING: This is a common password. Very easy to break.")>>
             ELSE IF contains_common_part(password)
             THEN <<Line("part", "Warning: Your password contains common word/number parts.")>>
             ELSE <<>>)
            \o <<Line("heading", "--- Scenarios (how fast it can be cracked) ---")>>)
    /\ scenario' = 1
    /\ pc' = "scenarios"
    /\ UNCHANGED <<COMMON_PASSWORDS, MATPLOTLIB_AVAILABLE, password, bits, label,
                   exc, call, ret>>

\* lines 178-180, one turn of the loop; an exception of line 179 is caught
\* nowhere and leaves main
Scenario ==
    /\ pc = "scenarios"
    /\ LET s == SCENARIOS[scenario]
           secs == avg_crack_time_seconds_from_bits(bits, s.rate)
       IN  IF secs.raised # "none"
           THEN /\ exc' = secs.raised
                /\ pc' = "crashed"
                /\ UNCHANGED <<out, scenario>>
           ELSE /\ Emit(<<[kind |-> "scenario", text |-> s.desc,
                           readable |-> human_readable(secs.val),
                           meaning |-> human_interpretation(secs.val)]>>)
                /\ scenario' = scenario + 1
                /\ pc' = IF scenario = Len(SCENARIOS) THEN "advice" ELSE "scenarios"
                /\ exc' = exc
    /\ UNCHANGED <<COMMON_PASSWORDS, MATPLOTLIB_AVAILABLE, password, bits, label,
                   call, ret>>

\* lines 183-191
Advice ==
    /\ pc = "advice"
    /\ Emit(<<Line("heading", "--- Quick advice ---"),
              Line("advice",
                   IF label = "Weak" THEN "Weak. Change it now."
                   ELSE IF label = "Okay" THEN "Okay. Needs improvement."
                   ELSE IF label = "Good" THEN "Good. You can still improve."
                   ELSE "Very strong. Nice!")>>)
    /\ pc' = "tips"
    /\ UNCHANGED <<COMMON_PASSWORDS, MATPLOTLIB_AVAILABLE, password, bits, label,
                   scenario, exc, call, ret>>

\* lines 194-198
Tips ==
    /\ pc = "tips"
    /\ LET tips == suggest_improvements(password)
       IN  Emit(<<Line("heading", "Tips:")>>
                \o [k \in 1..Len(tips) |-> Line("tip", tips[k])]
                \o <<Line("final", "Final tip: Use MFA (Multi-Factor Authentication) when possible.")>>)
    /\ pc' = "visual"
    /\ UNCHANGED <<COMMON_PASSWORDS, MATPLOTLIB_AVAILABLE, password, bits, label,
                   scenario, exc, call, ret>>

\* lines 200-202 with the text branch of show_strength_visual (159-161)
VisualText ==
    /\ pc = "visual"
    /\ ~MATPLOTLIB_AVAILABLE
    /\ Emit(<<AsciiBar(bits)>>)
    /\ pc' = "done"
    /\ UNCHANGED <<COMMON_PASSWORDS, MATPLOTLIB_AVAILABLE, password, bits, label,
                   scenario, exc, call, ret>>

\* lines 200-202 with the plotting branch (141-158): the figure is shown
VisualPlot ==
    /\ pc \in {"visual", "retry"}
    /\ MATPLOTLIB_AVAILABLE
    /\ pc' = "done"
    /\ UNCHANGED <<COMMON_PASSWORDS, MATPLOTLIB_AVAILABLE, password, bits, label,
                   scenario, out, exc, call, ret>>

\* lines 201-203: a call of lines 142-158 raises, the handler is entered
VisualPlotRaises ==
    /\ pc = "visual"
    /\ MATPLOTLIB_AVAILABLE
    /\ pc' = "retry"
    /\ UNCHANGED <<COMMON_PASSWORDS, MATPLOTLIB_AVAILABLE, password, bits, label,
                   scenario, out, exc, call, ret>>

\* line 204: the handler calls show_strength_visual again, which takes the
\* plotting branch again; what it raises now leaves main
RetryRaises ==
    /\ pc = "retry"
    /\ MATPLOTLIB_AVAILABLE
    /\ exc' = "PlotError"
    /\ pc' = "crashed"
    /\ UNCHANGED <<COMMON_PASSWORDS, MATPLOTLIB_AVAILABLE, password, bits, label,
                   scenario, out, call, ret>>

Next ==
    \/ MainTerminal
    \/ MainDemo
    \/ GetPass
    \/ GetPassFails
    \/ NoPassword
    \/ CallCheck
    \/ Header
    \/ Warn
    \/ Scenario
    \/ Advice
    \/ Tips
    \/ VisualText
    \/ VisualPlot
    \/ VisualPlotRaises
    \/ RetryRaises

Spec == Init /\ [][Next]_vars

(***************************************************************************)
(* The functions one by one: a call is drawn, then made                    *)
(***************************************************************************)
\* entropy values: 0.0, 0.1, ... bits
BitsInputs == {d * (Micro \div 10) : d \in 0..MaxDeciBits}

\* the boundaries of the two formatters
Boundaries ==
    << Num(1), Num(60), Num(3600), Num(86400), Times(Num(365), Num(86400)),
       Times(Num(100), Times(Num(365), Num(86400))) >>

\* durations: zero, the boundaries and their neighbours, and powers of two
SecondsInputs ==
    {Zero}
    \cup {[zero |-> FALSE, lg |-> Boundaries[k].lg + d] :
             k \in 1..Len(Boundaries), d \in (-MaxDelta)..MaxDelta}
    \cup {[zero |-> FALSE, lg |-> e * Micro] : e \in (-MaxLg)..MaxLg}

\* rates: those of the scenarios, and 1 .. MaxRate attempts per second
RateInputs ==
    {SCENARIOS[k].rate : k \in 1..Len(SCENARIOS)} \cup {Num(k) : k \in 1..MaxRate}

\* entropy values handed to the crack-time model: whole bits, to past the
\* range of a float
CrackBitsInputs == {b * Micro : b \in 0..MaxCrackBits} \cup {1023 * Micro, 1024 * Micro}

Calls ==
    {[fn |-> "load_common_passwords", file |-> f] : f \in WordListFiles}
    \cup {[fn |-> n, pw |-> p] :
             n \in {"charset_size", "entropy_bits", "suggest_improvements",
                    "contains_common_part"},
             p \in Passwords}
    \cup {[fn |-> "strength_label", bits |-> b] : b \in BitsInputs}
    \cup {[fn |-> "format", seconds |-> s] : s \in SecondsInputs}
    \cup {[fn |-> "avg_crack_time_seconds_from_bits", bits |-> b, rate |-> r] :
             b \in CrackBitsInputs, r \in RateInputs}

Return(v) == ret' = [done |-> TRUE, val |-> v]

Pending(fn) == call.fn = fn /\ ~ret.done

InitFn ==
    /\ call \in Calls
    /\ COMMON_PASSWORDS \in
           IF call.fn \in {"suggest_improvements", "contains_common_part"}
           THEN CommonSets ELSE {FALLBACK_COMMON}
    /\ MATPLOTLIB_AVAILABLE = FALSE
    /\ pc = "function"
    /\ password = <<>>
    /\ bits = 0
    /\ label = "none"
    /\ scenario = 0
    /\ out = <<>>
    /\ exc = "none"
    /\ ret = [done |-> FALSE]

\* line 34
ApplyLoad ==
    /\ Pending("load_common_passwords")
    /\ COMMON_PASSWORDS' = load_common_passwords(call.file)
    /\ Return(COMMON_PASSWORDS')
    /\ UNCHANGED <<MATPLOTLIB_AVAILABLE, pc, password, bits, label, scenario, out,
                   exc, call>>

ApplyCharsetSize ==
    /\ Pending("charset_size")
    /\ Return(charset_size(call.pw))
    /\ UNCHANGED <<COMMON_PASSWORDS, MATPLOTLIB_AVAILABLE, pc, password, bits, label,
                   scenario, out, exc, call>>

ApplyEntropyBits ==
    /\ Pending("entropy_bits")
    /\ Return(entropy_bits(call.pw))
    /\ UNCHANGED <<COMMON_PASSWORDS, MATPLOTLIB_AVAILABLE, pc, password, bits, label,
                   scenario, out, exc, call>>

ApplySuggest ==
    /\ Pending("suggest_improvements")
    /\ Return(suggest_improvements(call.pw))
    /\ UNCHANGED <<COMMON_PASSWORDS, MATPLOTLIB_AVAILABLE, pc, password, bits, label,
                   scenario, out, exc, call>>

ApplyContainsCommonPart ==
    /\ Pending("contains_common_part")
    /\ Return(contains_common_part(call.pw))
    /\ UNCHANGED <<COMMON_PASSWORDS, MATPLOTLIB_AVAILABLE, pc, password, bits, label,
                   scenario, out, exc, call>>

ApplyStrengthLabel ==
    /\ Pending("strength_label")
    /\ Return(strength_label(call.bits))
    /\ UNCHANGED <<COMMON_PASSWORDS, MATPLOTLIB_AVAILABLE, pc, password, bits, label,
                   scenario, out, exc, call>>

\* the two formatters on one duration, as line 180 calls them
ApplyFormat ==
    /\ Pending("format")
    /\ Return([readable |-> human_readable(call.seconds),
               meaning |-> human_interpretation(call.seconds)])
    /\ UNCHANGED <<COMMON_PASSWORDS, MATPLOTLIB_AVAILABLE, pc, password, bits, label,
                   scenario, out, exc, call>>

ApplyAvgCrackTime ==
    /\ Pending("avg_crack_time_seconds_from_bits")
    /\ Return(avg_crack_time_seconds_from_bits(call.bits, call.rate))
    /\ UNCHANGED <<COMMON_PASSWORDS, MATPLOTLIB_AVAILABLE, pc, password, bits, label,
                   scenario, out, exc, call>>

NextFn ==
    \/ ApplyLoad
    \/ ApplyCharsetSize
    \/ ApplyEntropyBits
    \/ ApplySuggest
    \/ ApplyContainsCommonPart
    \/ ApplyStrengthLabel
    \/ ApplyFormat
    \/ ApplyAvgCrackTime

SpecFn == InitFn /\ [][NextFn]_vars

(***************************************************************************)
(* Properties                                                              *)
(***************************************************************************)
Count(kind) == Cardinality({k \in 1..Len(out) : out[k].kind = kind})

Returned(fn) == call.fn = fn /\ ret.done

ReportKinds ==
    {"status", "length", "score", "common", "part", "heading", "scenario",
     "advice", "tip", "final", "bar"}

\* C1: when the plotting call raises, check_password_and_show falls back to
\* the ASCII bar and no exception leaves it: from the handler of line 203 the
\* run goes on to print the bar and to end without an exception.
C1_PlotFailureFallsBackToAsciiBar ==
    [][pc = "retry" => (pc' = "done" /\ exc' = "none" /\
                        \E k \in 1..Len(out') : out'[k].kind = "bar")]_vars

TrimsTo(line, i, j) ==
    /\ \A k \in 1..(i - 1) : isspace(line[k])
    /\ \A k \in (j + 1)..Len(line) : isspace(line[k])
    /\ i <= j => (~isspace(line[i]) /\ ~isspace(line[j]))
    /\ i > j => (i = 1 /\ j = 0)

LoweredTo(w, v) ==
    Len(v) = Len(w) /\ \A k \in 1..Len(w) : v[k] = LowerChar(w[k])

\* the line's trimmed text is an entry: not empty, no comment; v is its lowercase
EntryOf(line, v) ==
    \E i \in 1..Len(line), j \in 1..Len(line) :
        /\ i <= j
        /\ TrimsTo(line, i, j)
        /\ line[i] # "#"
        /\ LoweredTo(SubSeq(line, i, j), v)

\* C2: load_common_passwords never returns an empty set; it returns exactly
\* the fallback set (of at least 10 entries) when the file is missing, cannot
\* be opened, fails to decode or yields no entry, and otherwise the set of the
\* trimmed, lowercased lines that are neither empty nor comments.
C2_LoaderFallsBackAndNormalises ==
    Returned("load_common_passwords") =>
        LET f == call.file
            fails == ~f.exists \/ ~f.readable \/ f.bad \in 1..Len(f.lines)
        IN  /\ ret.val # {}
            /\ Cardinality(FALLBACK_COMMON) >= 10
            /\ COMMON_PASSWORDS = ret.val
            /\ fails => ret.val = FALLBACK_COMMON
            /\ ~fails =>
                   LET yields == {k \in 1..Len(f.lines) :
                                     \E i \in 1..Len(f.lines[k]), j \in 1..Len(f.lines[k]) :
                                         /\ i <= j
                                         /\ TrimsTo(f.lines[k], i, j)
                                         /\ f.lines[k][i] # "#"}
                   IN  /\ yields = {} => ret.val = FALLBACK_COMMON
                       /\ yields # {} =>
                              /\ \A v \in ret.val :
                                     \E k \in yields : EntryOf(f.lines[k], v)
                              /\ \A k \in yields :
                                     \E v \in ret.val : EntryOf(f.lines[k], v)

C2_Witness ==
    /\ Returned("load_common_passwords")
    /\ call.file.exists /\ call.file.readable /\ call.file.bad = 0
    /\ Len(call.file.lines) = 2
    /\ call.file.lines[1] = <<" ", "#", "a">>
    /\ call.file.lines[2] = <<" ">>
    /\ ret.val = FALLBACK_COMMON

C4_ArithmeticNeverRaises ==
    /\ exc # "OverflowError"
    /\ (pc \in {"done", "crashed"} /\ Count("status") = 1) =>
           (Count("scenario") = 4 /\ Count("final") = 1)

SuggestionTexts ==
    << "Make it longer (12+ characters).", "Add lowercase letters.",
       "Add uppercase letters.", "Add numbers.", "Add symbols (e.g. !?@#).",
       "Don't use common or very short passwords." >>

Affirmation == "Nice! Consider a passphrase or a password manager."

SuggestionDue(pw, n) ==
    CASE n = 1 -> Len(pw) < 12
      [] n = 2 -> \A k \in 1..Len(pw) : ~islower(pw[k])
      [] n = 3 -> \A k \in 1..Len(pw) : ~isupper(pw[k])
      [] n = 4 -> \A k \in 1..Len(pw) : ~isdigit(pw[k])
      [] n = 5 -> \A k \in 1..Len(pw) : pw[k] \notin Range(punctuation)
      [] n = 6 -> Len(pw) <= 4 \/ \E w \in COMMON_PASSWORDS : LoweredTo(pw, w)

\* C5: suggest_improvements returns the entries whose conditions hold, in
\* the fixed order, each once; the affirmation alone if no condition holds;
\* never an empty list; and a common part alone adds no entry.
C5_SuggestionsInOrder ==
    Returned("suggest_improvements") =>
        LET pw == call.pw
            r == ret.val
            due == {n \in 1..6 : SuggestionDue(pw, n)}
        IN  /\ r # <<>>
            /\ Len(r) = IF due = {} THEN 1 ELSE Cardinality(due)
            /\ due = {} => r = <<Affirmation>>
            /\ due # {} =>
                   /\ \A k \in 1..Len(r) : \E n \in due : r[k] = SuggestionTexts[n]
                   /\ \A n \in due : \E k \in 1..Len(r) : r[k] = SuggestionTexts[n]
                   /\ \A k \in 1..(Len(r) - 1) : \E m \in due, n \in due :
                          m < n /\ r[k] = SuggestionTexts[m] /\ r[k + 1] = SuggestionTexts[n]

C5_Witness ==
    /\ Returned("suggest_improvements")
    /\ call.pw = demo \o <<"a", "a">>
    /\ COMMON_PASSWORDS = FALLBACK_COMMON
    /\ ret.val = <<Affirmation>>

\* C6: an empty password at the prompt ends the run with the 'No password
\* entered' message and without check_password_and_show ever running (no line
\* of a report, no bar); a password that is not empty leads to exactly one
\* report.
C6_EmptyInputNoReport ==
    /\ password = <<>> => pc \in {"main", "prompt", "entered", "done"}
    /\ (password = <<>> /\ pc = "done") =>
           /\ out[Len(out)].kind = "bye"
           /\ Count("bye") = 1
           /\ \A k \in 1..Len(out) : out[k].kind \notin ReportKinds
    /\ password # <<>> => Count("bye") = 0
    /\ Count("status") <= 1
    /\ (password # <<>> /\ pc \notin {"main", "prompt", "entered", "check"}) =>
           Count("status") = 1

C6_Witness ==
    /\ pc = "done"
    /\ password = <<>>
    /\ Count("bye") = 1
    /\ Count("prompt") = 1

ClassSizes ==
    [lowercase |-> 26, uppercase |-> 26, digit |-> 10, punctuation |-> 32, whitespace |-> 1]

ClassesOf(pw) ==
    {n \in DOMAIN ClassSizes : \E k \in 1..Len(pw) :
        CASE n = "lowercase" -> islower(pw[k])
          [] n = "uppercase" -> isupper(pw[k])
          [] n = "digit" -> isdigit(pw[k])
          [] n = "punctuation" -> pw[k] \in Range(punctuation)
          [] n = "whitespace" -> isspace(pw[k])}

RECURSIVE SumSizes(_)
SumSizes(S) ==
    IF S = {} THEN 0
    ELSE LET n == CHOOSE m \in S : TRUE IN ClassSizes[n] + SumSizes(S \ {n})

\* C7: charset_size is at least 1 and is the sum of the alphabet sizes (26,
\* 26, 10, 32, 1) of the classes that have a character in the password, each
\* once; it is 1 when no class has one, and entropy_bits is then 0.
C7_CharsetSizeIsSumOfClasses ==
    /\ Returned("charset_size") =>
           /\ ret.val >= 1
           /\ ClassesOf(call.pw) # {} => ret.val = SumSizes(ClassesOf(call.pw))
           /\ ClassesOf(call.pw) = {} => ret.val = 1
    /\ Returned("entropy_bits") =>
           /\ ret.val >= 0
           /\ ClassesOf(call.pw) = {} => ret.val = 0

C7_Witness ==
    /\ Returned("charset_size")
    /\ call.pw = <<"U+4E2D", "U+4E2D">>
    /\ ret.val = 1

\* C8: strength_label is Weak below 28 bits, Okay from 28 to below 36, Good
\* from 36 to below 60 and Very strong from 60 on.
C8_LabelThresholds ==
    Returned("strength_label") =>
        LET b == call.bits
        IN  /\ ret.val = "Weak" <=> b < 28 * Micro
            /\ ret.val = "Okay" <=> (28 * Micro <= b /\ b < 36 * Micro)
            /\ ret.val = "Good" <=> (36 * Micro <= b /\ b < 60 * Micro)
            /\ ret.val = "Very strong" <=> b >= 60 * Micro

C8_Witness ==
    /\ Returned("strength_label")
    /\ call.bits = 60 * Micro
    /\ ret.val = "Very strong"

Units == <<"ms", "s", "min", "h", "days", "years", "centuries">>

Buckets ==
    << "Broken instantly.", "Broken in under a minute.", "Broken in under an hour.",
       "Broken within a day.", "Broken in months/years.",
       "Very long to break (years).", "Practically impossible to break." >>

IntervalOf(seconds) ==
    1 + Cardinality({k \in 1..Len(Boundaries) : ~Less(seconds, Boundaries[k])})

\* C9: human_readable and human_interpretation split the durations at the
\* same six boundaries (1 s, 60 s, 3600 s, 86400 s, 365 days, 100 * 365
\* days): the unit of the one and the bucket of the other are those of the
\* same interval, a boundary belonging to the interval above it.
C9_SameBoundaries ==
    Returned("format") =>
        /\ ret.val.readable = Units[IntervalOf(call.seconds)]
        /\ ret.val.meaning = Buckets[IntervalOf(call.seconds)]

C9_Witness ==
    /\ Returned("format")
    /\ call.seconds = Times(Num(100), Times(Num(365), Num(86400)))
    /\ ret.val.readable = "centuries"
    /\ ret.val.meaning = "Practically impossible to break."

IsCommon == \E w \in COMMON_PASSWORDS : LoweredTo(password, w)

HasCommonPart ==
    \E w \in COMMON_PASSWORDS :
        /\ Len(w) >= 3
        /\ \E at \in 0..(Len(password) - Len(w)) :
               \A k \in 1..Len(w) : w[k] = LowerChar(password[at + k])

\* C10: a report prints at most one common-password warning: the WARNING of
\* an exact match iff the lowercased password is in the common set, otherwise
\* the warning of a common part iff an entry of 3 or more characters occurs
\* in the lowercased password; and after the WARNING of an exact match the
\* tips of the report hold the 'Don't use common or very short passwords'
\* entry.
C10_OneCommonWarning ==
    LET warned == Count("status") = 1 /\ pc # "warn"
    IN  /\ Count("common") + Count("part") <= 1
        /\ ~warned => Count("common") + Count("part") = 0
        /\ warned => (Count("common") = 1 <=> IsCommon)
        /\ warned => (Count("part") = 1 <=> (~IsCommon /\ HasCommonPart))
        /\ (Count("common") = 1 /\ Count("final") = 1) =>
               \E k \in 1..Len(out) :
                   /\ out[k].kind = "tip"
                   /\ out[k].text = SuggestionTexts[6]

C10_Witness ==
    /\ pc = "done"
    /\ Count("common") = 1
    /\ Count("final") = 1
    /\ Len(password) > 4
====
